---- MODULE Spec2Model ----
(***************************************************************************)
(* Model of src/Extensions/MetaRampExt.py: the MetaRampExt extension that  *)
(* keeps the "key" parameters (Position<n>, Color<n>r/g/b/a, Delete<n>)    *)
(* of a ramp component on its custom parameter page.                       *)
(*                                                                         *)
(* The host's parameter page is modelled as the ordered sequence `page` of *)
(* tuplets, each the parameters one append call makes: a record [name,     *)
(* vals, readOnly].  A parameter name is kept as its three parts [prefix,  *)
(* digits, suffix], a tuplet name as [prefix, digits]; `digits` is the     *)
(* decimal string the code formats the index into (a sequence of the       *)
(* digits 0..9), so formatting (str), parsing (tdu.digits) and string      *)
(* comparison are modelled by what they do.  Values are in tenths: 5 is    *)
(* 0.5, 10 is 1.0.                                                         *)
(*                                                                         *)
(* Host behaviour taken as given: appendFloat/appendRGBA/appendPulse add   *)
(* the new parameters at the end of the page; pars(pattern) and page.pars  *)
(* enumerate in page order; destroy() of one parameter of a tuplet removes *)
(* the tuplet, and destroy() of a parameter that is gone raises and        *)
(* removes nothing; page.sort(names) puts the named tuplets first, in the  *)
(* order given.                                                            *)
(***************************************************************************)
EXTENDS Integers, Sequences, FiniteSets, TLC

VARIABLES page, Sortkeys, Enabledelete, last

vars == <<page, Sortkeys, Enabledelete, last>>

(***************************************************************************)
(* Bounds of the model.                                                    *)
(***************************************************************************)
\* most keys besides 0 and 99 that the full specification creates
MaxKeys == 2
\* most keys besides 0 and 99 that the index specification creates
IndexKeys == 3
\* most keys on the page in the fill specification
FillKeys == 101

\* the positions (in tenths) a caller passes or a user types
InputPositions == {2, 5}
\* the position AddKey reads in the index and fill specifications
FillPositions == {5}

(***************************************************************************)
(* Program constants.                                                      *)
(***************************************************************************)
position_prefix == "Position"
color_prefix == "Color"
delete_prefix == "Delete"

\* the high reserved index
LastIdx == 99
\* the value of a new color's r, g, b and of its alpha, in tenths
Grey == 5
Opaque == 10
DefaultColor == <<Grey, Grey, Grey, Opaque>>
\* the colors a user picks
InputColors == {<<10, 0, 0, 10>>}
\* the keys whose position a user edits, and those whose color
EditIndices == {0, 1, LastIdx}
ColorIndices == {1}

ColorSuffixes == <<"r", "g", "b", "a">>

(***************************************************************************)
(* Sequences and strings.                                                  *)
(***************************************************************************)
Range(s) == {s[i] : i \in 1..Len(s)}

RECURSIVE Flatten(_)
Flatten(ss) == IF ss = <<>> THEN <<>> ELSE Head(ss) \o Flatten(Tail(ss))

\* str(n): the decimal digits of n, most significant first
RECURSIVE Str(_)
Str(n) == IF n < 10 THEN <<n>> ELSE Append(Str(n \div 10), n % 10)

\* tdu.digits(name): the integer the digits of a name spell
RECURSIVE ParseInt(_)
ParseInt(ds) ==
    IF ds = <<>> THEN 0
    ELSE 10 * ParseInt(SubSeq(ds, 1, Len(ds) - 1)) + ds[Len(ds)]

digits(name) == ParseInt(name.digits)

\* Python's < on two strings of digits: lexicographic, a proper prefix first
RECURSIVE StrLess(_, _)
StrLess(a, b) ==
    IF b = <<>> THEN FALSE
    ELSE IF a = <<>> THEN TRUE
    ELSE IF Head(a) # Head(b) THEN Head(a) < Head(b)
    ELSE StrLess(Tail(a), Tail(b))

\* the name of a parameter, and of the tuplet it belongs to
ParName(prefix, idx, suffix) ==
    [prefix |-> prefix, digits |-> Str(idx), suffix |-> suffix]

TupletName(name) == [prefix |-> name.prefix, digits |-> name.digits]

Tuplet(prefix, idx) == [prefix |-> prefix, digits |-> Str(idx)]

(***************************************************************************)
(* The host's parameter page.                                              *)
(***************************************************************************)
\* the parameters one append call makes (a tuplet): their common name, their
\* values (one for a float or a pulse, four for an RGBA) and their readOnly
ParGroup(name, vals, ro) == [name |-> name, vals |-> vals, readOnly |-> ro]

\* the page as the component ships: keys 0 and 99, delete controls unarmed
InitPage ==
    << ParGroup(Tuplet(position_prefix, 0), <<0>>, FALSE),
       ParGroup(Tuplet(color_prefix, 0), DefaultColor, FALSE),
       ParGroup(Tuplet(delete_prefix, 0), <<0>>, TRUE),
       ParGroup(Tuplet(position_prefix, LastIdx), <<10>>, FALSE),
       ParGroup(Tuplet(color_prefix, LastIdx), DefaultColor, FALSE),
       ParGroup(Tuplet(delete_prefix, LastIdx), <<0>>, TRUE) >>

\* the suffixes of the parameters of a tuplet
Suffixes(g) == IF Len(g.vals) = 1 THEN {""} ELSE Range(ColorSuffixes)

\* ownerComp.par[name]: is there such a parameter
HasPar(pg, name) ==
    \E i \in 1..Len(pg) :
        pg[i].name = TupletName(name) /\ name.suffix \in Suffixes(pg[i])

\* par.destroy(): the parameter goes, and with it the rest of its tuplet
Destroy(pg, name) == SelectSeq(pg, LAMBDA g : g.name # TupletName(name))

\* page.sort(*names): the named tuplets in the order given, the rest after
PageSort(pg, names) ==
    Flatten([i \in 1..Len(names) |->
                SelectSeq(pg, LAMBDA g : g.name = names[i])])
    \o SelectSeq(pg, LAMBDA g : g.name \notin Range(names))

(***************************************************************************)
(* MetaRampExt.                                                            *)
(***************************************************************************)
\* pars('Position*'), in page order
get_position_params(pg) ==
    SelectSeq(pg, LAMBDA p : p.name.prefix = position_prefix)

get_num_params(pg) == Len(get_position_params(pg))

get_position_param_digits(pg) ==
    LET position_params == get_position_params(pg)
    IN  [i \in 1..Len(position_params) |-> digits(position_params[i].name)]

\* create_key_params with readOnly set to the flag, not to its negation
create_key_params_armed(pg, idx, new_position_val, enable_delete_val) ==
    pg \o << ParGroup(Tuplet(position_prefix, idx), <<new_position_val>>, FALSE),
             ParGroup(Tuplet(color_prefix, idx),
                      [i \in 1..4 |-> IF i <= 3 THEN Grey ELSE Opaque], FALSE),
             ParGroup(Tuplet(delete_prefix, idx), <<0>>, enable_delete_val) >>

create_key_params(pg, idx, new_position_val, enable_delete_val) ==
    pg \o << ParGroup(Tuplet(position_prefix, idx), <<new_position_val>>, FALSE),
             ParGroup(Tuplet(color_prefix, idx),
                      [i \in 1..4 |-> IF i <= 3 THEN Grey ELSE Opaque], FALSE),
             ParGroup(Tuplet(delete_prefix, idx), <<0>>, ~enable_delete_val) >>

\* ownerComp.par[name]: the value of the parameter of that name
ParVal(pg, name) ==
    LET g == pg[CHOOSE i \in 1..Len(pg) : pg[i].name = TupletName(name)]
    IN  IF Len(g.vals) = 1 THEN g.vals[1]
        ELSE g.vals[CHOOSE k \in 1..4 : ColorSuffixes[k] = name.suffix]

\* the row of one position parameter: its value, then the r, g, b, a of the
\* color parameters that carry its digits
ColorKeyRow(pg, param) ==
    LET pos == param.vals[1]
        par_digit == digits(param.name)
    IN  << pos,
           ParVal(pg, ParName(color_prefix, par_digit, "r")),
           ParVal(pg, ParName(color_prefix, par_digit, "g")),
           ParVal(pg, ParName(color_prefix, par_digit, "b")),
           ParVal(pg, ParName(color_prefix, par_digit, "a")) >>

\* the position parameters taken in the order of their digits
RECURSIVE ByDigits(_)
ByDigits(params) ==
    IF params = <<>> THEN <<>>
    ELSE LET lo == CHOOSE i \in 1..Len(params) :
                       \A j \in 1..Len(params) :
                           digits(params[i].name) <= digits(params[j].name)
         IN  <<params[lo]>>
             \o ByDigits([k \in 1..(Len(params) - 1) |->
                             IF k < lo THEN params[k] ELSE params[k + 1]])

\* CollectColorKeys looping over the position parameters in index order
CollectColorKeys_by_index(pg) ==
    LET position_params == ByDigits(get_position_params(pg))
    IN  << <<"pos", "r", "g", "b", "a">> >>
        \o [i \in 1..Len(position_params) |->
                ColorKeyRow(pg, position_params[i])]

CollectColorKeys(pg) ==
    LET position_params == get_position_params(pg)
    IN  << <<"pos", "r", "g", "b", "a">> >>
        \o [i \in 1..Len(position_params) |->
                ColorKeyRow(pg, position_params[i])]

\* list(range(n)) with the last element set to 99: the list one too short
ideal_numbers_present_short(n) ==
    [i \in 1..n |-> IF i = n THEN LastIdx ELSE i - 1]

\* list(range(n + 1)) with the last element set to 99
ideal_numbers_present(n) ==
    [i \in 1..(n + 1) |-> IF i = n + 1 THEN LastIdx ELSE i - 1]

\* `missing` taken against the keys between 0 and 99 only
missing_interior(pg) ==
    LET position_param_digits == get_position_param_digits(pg)
        ideal == ideal_numbers_present(Len(position_param_digits))
    IN  SelectSeq(ideal, LAMBDA i :
            i \notin (Range(position_param_digits) \ {0, LastIdx}))

missing(pg) ==
    LET position_param_digits == get_position_param_digits(pg)
        ideal == ideal_numbers_present(Len(position_param_digits))
    IN  SelectSeq(ideal, LAMBDA i : i \notin Range(position_param_digits))

SeqMax(s) == CHOOSE m \in Range(s) : \A x \in Range(s) : x <= m

\* the largest missing number first
next_idx_last_missing(pg) ==
    LET ideal == ideal_numbers_present(Len(get_position_param_digits(pg)))
    IN  IF missing(pg) # <<>>
        THEN missing(pg)[Len(missing(pg))]
        ELSE SeqMax(SubSeq(ideal, 1, Len(ideal) - 1)) + 1

\* the index taken from the number of keys (num_params), not from `missing`
next_idx_count(pg) == get_num_params(pg) - 1

next_idx(pg) ==
    LET ideal == ideal_numbers_present(Len(get_position_param_digits(pg)))
    IN  IF missing(pg) # <<>>
        THEN missing(pg)[1]
        ELSE SeqMax(SubSeq(ideal, 1, Len(ideal) - 1)) + 1

\* <= on the values alone, the names not looked at
TupleLess_or_equal(a, b) == a[1] <= b[1]

\* Python's < on the tuples (value, name); the names compared are all
\* "Position" followed by digits, so they compare as their digits do
TupleLess(a, b) ==
    \/ a[1] < b[1]
    \/ a[1] = b[1] /\ StrLess(a[2].digits, b[2].digits)

\* sorted(): ascending, equal elements in their order of arrival
RECURSIVE Insert(_, _)
Insert(x, s) ==
    IF s = <<>> THEN <<x>>
    ELSE IF TupleLess(x, Head(s)) THEN <<x>> \o s
    ELSE <<Head(s)>> \o Insert(x, Tail(s))

\* the list left as it came
sorted_not(s) == s

RECURSIVE sorted(_)
sorted(s) ==
    IF s = <<>> THEN <<>>
    ELSE Insert(s[Len(s)], sorted(SubSeq(s, 1, Len(s) - 1)))

position_info(pg) ==
    LET position_params == get_position_params(pg)
    IN  [i \in 1..Len(position_params) |->
            <<position_params[i].vals[1], position_params[i].name>>]

\* the list built from the keys other than 0 and 99 only
expanded_param_list_interior(pg) ==
    LET sorted_pos_info ==
            SelectSeq(sorted(position_info(pg)),
                      LAMBDA t : digits(t[2]) # 0 /\ digits(t[2]) # LastIdx)
    IN  Flatten([i \in 1..Len(sorted_pos_info) |->
            LET name == sorted_pos_info[i][2]
            IN  << name,
                   Tuplet(color_prefix, digits(name)),
                   Tuplet(delete_prefix, digits(name)) >>])

expanded_param_list(pg) ==
    LET sorted_pos_info == sorted(position_info(pg))
    IN  Flatten([i \in 1..Len(sorted_pos_info) |->
            LET name == sorted_pos_info[i][2]
            IN  << name,
                   Tuplet(color_prefix, digits(name)),
                   Tuplet(delete_prefix, digits(name)) >>])

\* SwitchKeyPositions without the test of the Sortkeys parameter
SwitchKeyPositions_always(pg, sort_keys_enabled) ==
    PageSort(pg, expanded_param_list(pg))

SwitchKeyPositions(pg, sort_keys_enabled) ==
    IF sort_keys_enabled THEN PageSort(pg, expanded_param_list(pg)) ELSE pg

\* OnAddKey that does not read Enabledelete: the new control is read-only
OnAddKey_unarmed(pg, new_position_val, enable_delete_val, sort_keys_enabled) ==
    SwitchKeyPositions(
        create_key_params(pg, next_idx(pg), new_position_val, FALSE),
        sort_keys_enabled)

\* OnAddKey without its last line, the call of SwitchKeyPositions
OnAddKey_no_switch(pg, new_position_val, enable_delete_val, sort_keys_enabled) ==
    create_key_params(pg, next_idx(pg), new_position_val, enable_delete_val)

OnAddKey(pg, new_position_val, enable_delete_val, sort_keys_enabled) ==
    SwitchKeyPositions(
        create_key_params(pg, next_idx(pg), new_position_val, enable_delete_val),
        sort_keys_enabled)

\* OnEnableDelete flipping readOnly instead of setting it from the value
OnEnableDelete_flip(pg, par_val) ==
    [i \in 1..Len(pg) |->
        IF /\ pg[i].name.prefix = delete_prefix
           /\ pg[i].name # Tuplet(delete_prefix, 0)
           /\ pg[i].name # Tuplet(delete_prefix, LastIdx)
        THEN [pg[i] EXCEPT !.readOnly = ~pg[i].readOnly]
        ELSE pg[i]]

\* OnEnableDelete without the test on the names Delete0 and Delete99
OnEnableDelete_all(pg, par_val) ==
    [i \in 1..Len(pg) |->
        IF pg[i].name.prefix = delete_prefix
        THEN [pg[i] EXCEPT !.readOnly = (par_val # 1)]
        ELSE pg[i]]

OnEnableDelete(pg, par_val) ==
    [i \in 1..Len(pg) |->
        IF /\ pg[i].name.prefix = delete_prefix
           /\ pg[i].name # Tuplet(delete_prefix, 0)
           /\ pg[i].name # Tuplet(delete_prefix, LastIdx)
        THEN [pg[i] EXCEPT !.readOnly = (par_val # 1)]
        ELSE pg[i]]

\* the loop over param_list: a parameter that is not there stops it (its
\* destroy() raises), as does par.destroy() of a parameter that is gone
RECURSIVE DestroyEach(_, _)
DestroyEach(pg, names) ==
    IF names = <<>> \/ ~HasPar(pg, Head(names)) THEN pg
    ELSE DestroyEach(Destroy(pg, Head(names)), Tail(names))

\* OnDeleteKey with the test for 99 alone: Delete0 is not held back
OnDeleteKey_guards_last(pg, par_name) ==
    LET par_digits == Str(digits(par_name))
    IN  IF par_digits # Str(LastIdx) /\ HasPar(pg, par_name)
        THEN DestroyEach(Destroy(pg, par_name),
            << [prefix |-> color_prefix, digits |-> par_digits, suffix |-> "r"],
               [prefix |-> position_prefix, digits |-> par_digits, suffix |-> ""] >>)
        ELSE pg

\* OnDeleteKey without the test for 0 and 99
OnDeleteKey_unguarded(pg, par_name) ==
    LET par_digits == Str(digits(par_name))
    IN  IF HasPar(pg, par_name)
        THEN DestroyEach(Destroy(pg, par_name),
            << [prefix |-> color_prefix, digits |-> par_digits, suffix |-> "r"],
               [prefix |-> position_prefix, digits |-> par_digits, suffix |-> ""] >>)
        ELSE pg

\* OnDeleteKey with the position parameter left out of param_names
OnDeleteKey_keeps_position(pg, par_name) ==
    LET par_digits == Str(digits(par_name))
    IN  IF par_digits # Str(0) /\ par_digits # Str(LastIdx) /\ HasPar(pg, par_name)
        THEN DestroyEach(Destroy(pg, par_name),
            << [prefix |-> color_prefix, digits |-> par_digits, suffix |-> "r"] >>)
        ELSE pg

OnDeleteKey(pg, par_name) ==
    LET par_digits == Str(digits(par_name))
        color_param_base_name ==
            [prefix |-> color_prefix, digits |-> par_digits, suffix |-> "r"]
        position_param_base_name ==
            [prefix |-> position_prefix, digits |-> par_digits, suffix |-> ""]
    IN  IF par_digits # Str(0) /\ par_digits # Str(LastIdx)
        THEN IF HasPar(pg, par_name)
             THEN DestroyEach(Destroy(pg, par_name),
                      <<color_param_base_name, position_param_base_name>>)
             ELSE pg
        ELSE pg

\* OnDeleteKey with every exception caught and dropped
OnDeleteKey_silent(pg, par_name) == FALSE

\* does OnDeleteKey end in an exception: past the test for 0 and 99, a
\* parameter that is not there has no destroy()
OnDeleteKey_raises(pg, par_name) ==
    LET par_digits == Str(digits(par_name))
        color_param_base_name ==
            [prefix |-> color_prefix, digits |-> par_digits, suffix |-> "r"]
        position_param_base_name ==
            [prefix |-> position_prefix, digits |-> par_digits, suffix |-> ""]
    IN  /\ par_digits # Str(0) /\ par_digits # Str(LastIdx)
        /\ \/ ~HasPar(pg, par_name)
           \/ ~HasPar(pg, color_param_base_name)
           \/ ~HasPar(pg, position_param_base_name)

(***************************************************************************)
(* The state machine.  `last` records the operation that led to the state, *)
(* the index it assigned or was called with, the position AddKey read, and *)
(* whether the call ended in an exception.                                  *)
(***************************************************************************)
Init ==
    /\ page = InitPage
    /\ Sortkeys = FALSE
    /\ Enabledelete = FALSE
    /\ last = [op |-> "Init", idx |-> 0, val |-> 0, err |-> FALSE]

AddKey(p) ==
    /\ page' = OnAddKey(page, p, Enabledelete, Sortkeys)
    /\ last' = [op |-> "AddKey", idx |-> next_idx(page), val |-> p, err |-> FALSE]
    /\ UNCHANGED <<Sortkeys, Enabledelete>>

\* the delete control of index idx is pulsed; the control of a key that is
\* gone may be pulsed again
DeleteKey(idx) ==
    /\ page' = OnDeleteKey(page, ParName(delete_prefix, idx, ""))
    /\ last' = [op |-> "DeleteKey", idx |-> idx, val |-> 0,
                err |-> OnDeleteKey_raises(page, ParName(delete_prefix, idx, ""))]
    /\ UNCHANGED <<Sortkeys, Enabledelete>>

SetDeleteEnabled(b) ==
    /\ Enabledelete' = b
    /\ page' = OnEnableDelete(page, IF b THEN 1 ELSE 0)
    /\ last' = [op |-> "SetDeleteEnabled", idx |-> 0, val |-> 0, err |-> FALSE]
    /\ UNCHANGED Sortkeys

SetSortkeys(b) ==
    /\ Sortkeys' = b
    /\ last' = [op |-> "SetSortkeys", idx |-> 0, val |-> 0, err |-> FALSE]
    /\ UNCHANGED <<page, Enabledelete>>

Sort ==
    /\ page' = SwitchKeyPositions(page, Sortkeys)
    /\ last' = [op |-> "Sort", idx |-> 0, val |-> 0, err |-> FALSE]
    /\ UNCHANGED <<Sortkeys, Enabledelete>>

\* a user types a position into an existing key
SetPosition(idx, v) ==
    /\ HasPar(page, ParName(position_prefix, idx, ""))
    /\ page' = [i \in 1..Len(page) |->
                  IF page[i].name = Tuplet(position_prefix, idx)
                  THEN [page[i] EXCEPT !.vals = <<v>>] ELSE page[i]]
    /\ last' = [op |-> "Edit", idx |-> 0, val |-> 0, err |-> FALSE]
    /\ UNCHANGED <<Sortkeys, Enabledelete>>

\* a user picks a color for an existing key
SetColor(idx, c) ==
    /\ HasPar(page, ParName(color_prefix, idx, "r"))
    /\ page' = [i \in 1..Len(page) |->
                  IF page[i].name = Tuplet(color_prefix, idx)
                  THEN [page[i] EXCEPT !.vals = c] ELSE page[i]]
    /\ last' = [op |-> "Edit", idx |-> 0, val |-> 0, err |-> FALSE]
    /\ UNCHANGED <<Sortkeys, Enabledelete>>

\* the indices of the keys on the page, in page order
Indices(pg) == get_position_param_digits(pg)

Next ==
    \/ \E p \in InputPositions :
          get_num_params(page) < MaxKeys + 2 /\ AddKey(p)
    \/ \E idx \in Range(Indices(page)) : DeleteKey(idx)
    \/ \E b \in BOOLEAN : SetDeleteEnabled(b)
    \/ \E b \in BOOLEAN : SetSortkeys(b)
    \/ Sort
    \/ \E idx \in EditIndices, v \in InputPositions : SetPosition(idx, v)
    \/ \E idx \in ColorIndices, c \in InputColors : SetColor(idx, c)

Spec == Init /\ [][Next]_vars

\* the index policy alone: keys come and go, all at one position
NextIndex ==
    \/ get_num_params(page) < IndexKeys + 2 /\ (\E p \in FillPositions : AddKey(p))
    \/ \E idx \in Range(Indices(page)) \cup (1..IndexKeys) : DeleteKey(idx)
    \/ \E b \in BOOLEAN : SetSortkeys(b)

SpecIndex == Init /\ [][NextIndex]_vars

\* filling the index space: AddKey after AddKey, up to FillKeys keys
NextFill ==
    \/ get_num_params(page) < FillKeys /\ (\E p \in FillPositions : AddKey(p))
    \/ \E b \in BOOLEAN : SetDeleteEnabled(b)

SpecFill == Init /\ [][NextFill]_vars

\* gaps on the way to capacity: the page fills, and while it holds at most
\* GapUpTo keys or at least GapFrom the keys of GapDeletes are deleted and
\* their indices given out again
GapUpTo == IndexKeys + 1
GapFrom == LastIdx - 2
GapDeletes == {0, 1, 2, LastIdx}

NextGap ==
    \/ get_num_params(page) < FillKeys /\ (\E p \in FillPositions : AddKey(p))
    \/ /\ get_num_params(page) <= GapUpTo \/ get_num_params(page) >= GapFrom
       /\ \E idx \in GapDeletes : DeleteKey(idx)

SpecGap == Init /\ [][NextGap]_vars

\* a consumer reads the rows; nothing is written
Collect ==
    /\ last' = [op |-> "Collect", idx |-> 0, val |-> 0, err |-> FALSE]
    /\ UNCHANGED <<page, Sortkeys, Enabledelete>>

\* the rows a consumer reads: keys come, go, move and are read
NextCollect ==
    \/ \E p \in InputPositions :
          get_num_params(page) < MaxKeys + 2 /\ AddKey(p)
    \/ \E idx \in Range(Indices(page)) : DeleteKey(idx)
    \/ \E b \in BOOLEAN : SetSortkeys(b)
    \/ Sort
    \/ \E idx \in EditIndices, v \in InputPositions : SetPosition(idx, v)
    \/ \E idx \in ColorIndices, c \in InputColors : SetColor(idx, c)
    \/ Collect

SpecCollect == Init /\ [][NextCollect]_vars

(***************************************************************************)
(* Views of the page used to state the properties.                         *)
(***************************************************************************)
Keys(pg) == Range(Indices(pg))

GroupAt(pg, name) == pg[CHOOSE i \in 1..Len(pg) : pg[i].name = name]

HasPosition(pg, idx) == HasPar(pg, ParName(position_prefix, idx, ""))
HasColor(pg, idx) ==
    \A k \in 1..4 : HasPar(pg, ParName(color_prefix, idx, ColorSuffixes[k]))
HasDelete(pg, idx) == HasPar(pg, ParName(delete_prefix, idx, ""))

PositionOf(pg, idx) == GroupAt(pg, Tuplet(position_prefix, idx)).vals[1]
ColorOf(pg, idx) == GroupAt(pg, Tuplet(color_prefix, idx)).vals
Armed(pg, idx) == ~GroupAt(pg, Tuplet(delete_prefix, idx)).readOnly

\* every index that some parameter of the page carries
AllDigits(pg) == {digits(pg[i].name) : i \in 1..Len(pg)}

Reserved == {0, LastIdx}

(***************************************************************************)
(* C1.  Keys 0 and 99 exist in every reachable state, each with its        *)
(* position, its color and its delete control, and the delete control of   *)
(* neither is ever armed.                                                  *)
(***************************************************************************)
C1_ReservedKept ==
    \A idx \in Reserved :
        /\ HasPosition(page, idx)
        /\ HasColor(page, idx)
        /\ HasDelete(page, idx)
        /\ ~Armed(page, idx)

\* deletion was enabled, a key in between is armed, and a delete of 0 or 99
\* has been asked for
C1_Witness ==
    /\ Enabledelete
    /\ last.op = "DeleteKey" /\ last.idx \in Reserved
    /\ \E idx \in Keys(page) \ Reserved : Armed(page, idx)

(***************************************************************************)
(* C2.  No two keys carry the same index: the Position parameters of the   *)
(* page have pairwise different indices, and no name is on the page twice. *)
(***************************************************************************)
C2_UniqueIndices ==
    /\ \A i, j \in 1..Len(Indices(page)) :
          i # j => Indices(page)[i] # Indices(page)[j]
    /\ \A i, j \in 1..Len(page) : i # j => page[i].name # page[j].name

\* a key was deleted and AddKey gave its index out again below a key that stayed
C2_Witness ==
    /\ last.op = "AddKey"
    /\ \E idx \in Keys(page) : idx > last.idx /\ idx # LastIdx
    /\ Indices(page)[Len(Indices(page))] = last.idx

(***************************************************************************)
(* C3.  Every index on the page is an integer in 0..99, and every index    *)
(* other than 0 and 99 lies strictly between them.  The 99th AddKey in a   *)
(* row finds nothing missing and assigns max(0..99) + 1 = 100.             *)
(***************************************************************************)
C3_IndicesInRange ==
    \A idx \in AllDigits(page) :
        /\ idx \in 0..LastIdx
        /\ idx \notin Reserved => (0 < idx /\ idx < LastIdx)

(***************************************************************************)
(* C4.  AddKey assigns the lowest index above 0 that no key of the page    *)
(* holds, and adds that key only: from {0,99} it assigns 1, from {0,1,99}  *)
(* 2, from {0,1,2,99} 3, and from {0,1,3,99} it assigns 2, not 4.          *)
(***************************************************************************)
LowestUnused(pg) ==
    LET used == Keys(pg)
    IN  CHOOSE n \in 1..(Len(pg) + 1) :
            n \notin used /\ \A m \in 1..(n - 1) : m \in used

C4_GapFillFirst ==
    [][(last'.op = "AddKey" /\ page' # page) =>
          /\ last'.idx = LowestUnused(page)
          /\ Keys(page') = Keys(page) \cup {last'.idx}
          /\ Len(Indices(page')) = Len(Indices(page)) + 1
          /\ Keys(page) = {0, LastIdx} => last'.idx = 1
          /\ Keys(page) = {0, 1, LastIdx} => last'.idx = 2
          /\ Keys(page) = {0, 1, 2, LastIdx} => last'.idx = 3
          /\ Keys(page) = {0, 1, 3, LastIdx} => last'.idx = 2]_vars

\* keys 1, 2, 3 were added, 2 was deleted, and AddKey has given 2 out again
C4_Witness ==
    /\ last.op = "AddKey" /\ last.idx = 2
    /\ ~Sortkeys
    /\ Indices(page) = <<0, LastIdx, 1, 3, 2>>

(***************************************************************************)
(* C8.  AddKey creates no key once 100 keys exist: the page never holds    *)
(* more than 100 keys.  The code has no such test: with the indices 0..99  *)
(* all in use it creates Position100, Color100 and Delete100.              *)
(***************************************************************************)
C8_CapacityRejects == get_num_params(page) <= LastIdx + 1

(***************************************************************************)
(* The order of the keys on the page.                                      *)
(***************************************************************************)
\* the positions of the keys, in page order
PagePositions(pg) ==
    [i \in 1..get_num_params(pg) |-> get_position_params(pg)[i].vals[1]]

AscendingOnPage(pg) ==
    \A i \in 1..(get_num_params(pg) - 1) :
        PagePositions(pg)[i] <= PagePositions(pg)[i + 1]

\* the page is key after key, each its position, its color, its delete control
TriplesTogether(pg) ==
    /\ Len(pg) = 3 * get_num_params(pg)
    /\ \A k \in 0..(get_num_params(pg) - 1) :
          /\ pg[3 * k + 1].name.prefix = position_prefix
          /\ pg[3 * k + 2].name =
                [prefix |-> color_prefix, digits |-> pg[3 * k + 1].name.digits]
          /\ pg[3 * k + 3].name =
                [prefix |-> delete_prefix, digits |-> pg[3 * k + 1].name.digits]

\* key i comes before key j on the page
Before(pg, i, j) ==
    \E a, b \in 1..Len(Indices(pg)) :
        a < b /\ Indices(pg)[a] = i /\ Indices(pg)[b] = j

\* keys 1 and 2 added at 0.7 and 0.3 to the shipped page
ExamplePage ==
    create_key_params(create_key_params(InitPage, 1, 7, FALSE), 2, 3, FALSE)

(***************************************************************************)
(* C5 as claimed.  After Sort with the flag on, the indices of the keys    *)
(* between 0 and 99 follow their positions: a lower index holds a lower or *)
(* equal position.                                                         *)
(***************************************************************************)
C5_SortReindexes ==
    (last.op = "Sort" /\ Sortkeys) =>
        \A i, j \in Keys(page) \ Reserved :
            i < j => PositionOf(page, i) <= PositionOf(page, j)

(***************************************************************************)
(* C5 as amended.  Sort with the flag on reorders the page and reassigns   *)
(* no index: afterwards the keys read in page order have ascending         *)
(* positions, each followed by its own color and delete control, and every *)
(* key holds the index, position and color it held before.  With 0.5 at    *)
(* index 1 and 0.2 at index 2 the page order becomes 0, 2, 1, 99, and      *)
(* DeleteKey(2) then removes the key at 0.2, leaving 0, 1 (at 0.5), 99.    *)
(* Likewise with 0.7 at index 1 and 0.3 at index 2.                        *)
(***************************************************************************)
C5_SortOrdersPage ==
    [][/\ (last'.op = "Sort" /\ Sortkeys) =>
            /\ AscendingOnPage(page')
            /\ TriplesTogether(page')
            /\ Keys(page') = Keys(page)
            /\ \A idx \in Keys(page) :
                  /\ PositionOf(page', idx) = PositionOf(page, idx)
                  /\ ColorOf(page', idx) = ColorOf(page, idx)
            /\ ( /\ Indices(page) = <<0, LastIdx, 1, 2>>
                 /\ PagePositions(page) = <<0, 10, 5, 2>> )
               => ( /\ Indices(page') = <<0, 2, 1, LastIdx>>
                    /\ PagePositions(page') = <<0, 2, 5, 10>> )
            /\ Indices(SwitchKeyPositions(ExamplePage, TRUE)) = <<0, 2, 1, LastIdx>>
            /\ PagePositions(SwitchKeyPositions(ExamplePage, TRUE)) = <<0, 3, 7, 10>>
       /\ ( /\ last'.op = "DeleteKey" /\ last'.idx = 2
            /\ Indices(page) = <<0, 2, 1, LastIdx>>
            /\ PagePositions(page) = <<0, 2, 5, 10>> )
          => ( /\ Indices(page') = <<0, 1, LastIdx>>
               /\ PagePositions(page') = <<0, 5, 10>> )
      ]_vars

\* the scenario: 0.5 added at 1, 0.2 at 2, the flag set, Sort called
C5_Witness ==
    /\ last.op = "Sort" /\ Sortkeys
    /\ Indices(page) = <<0, 2, 1, LastIdx>>
    /\ PagePositions(page) = <<0, 2, 5, 10>>

(***************************************************************************)
(* C6.  DeleteKey of an existing key other than 0 and 99 removes its       *)
(* position, its color and its delete control together and leaves every    *)
(* other parameter of the page as and where it was; after any DeleteKey    *)
(* the page is still whole keys, each a position, a color and a delete     *)
(* control of one index.                                                   *)
(***************************************************************************)
C6_DeleteAtomic ==
    [][last'.op = "DeleteKey" =>
          /\ TriplesTogether(page')
          /\ (last'.idx \notin Reserved /\ last'.idx \in AllDigits(page))
             => ( /\ last'.idx \notin AllDigits(page')
                  /\ \E removed \in AllDigits(page) :
                        /\ removed = last'.idx
                        /\ page' = SelectSeq(page,
                                      LAMBDA g : digits(g.name) # removed) )
      ]_vars

\* key 1 was deleted while key 2 stayed
C6_Witness ==
    /\ last.op = "DeleteKey" /\ last.idx = 1
    /\ 1 \notin AllDigits(page)
    /\ 2 \in Keys(page)

(***************************************************************************)
(* C7.  DeleteKey(0) and DeleteKey(99) change nothing: the page (every     *)
(* parameter, value, readOnly and the order) and both flags stay as they   *)
(* were, and the call ends in no exception.                                *)
(***************************************************************************)
C7_DeleteGuard ==
    [][(last'.op = "DeleteKey" /\ last'.idx \in Reserved) =>
          /\ page' = page
          /\ Sortkeys' = Sortkeys
          /\ Enabledelete' = Enabledelete
          /\ ~last'.err]_vars

\* DeleteKey(0) was called on a page with two more keys
C7_Witness ==
    /\ last.op = "DeleteKey" /\ last.idx = 0
    /\ Cardinality(Keys(page)) = 4

(***************************************************************************)
(* C9.  Right after an AddKey made with the Sortkeys flag on, the keys are *)
(* in ascending position order on the page, and the page is what Sort      *)
(* would make of it.                                                       *)
(***************************************************************************)
C9_AddKeySorts ==
    (last.op = "AddKey" /\ Sortkeys) =>
        /\ AscendingOnPage(page)
        /\ SwitchKeyPositions(page, TRUE) = page

\* after an edit of key 0, AddKey with the flag on has put the new key before
\* another
C9_Witness ==
    /\ last.op = "AddKey" /\ Sortkeys
    /\ PositionOf(page, 0) # 0
    /\ Indices(page)[Len(Indices(page))] # last.idx

(***************************************************************************)
(* C10.  Sort keeps keys of equal position in the order they had on the    *)
(* page.  The code sorts the tuples (position, name), so among equal       *)
(* positions the names decide: Position1 goes before Position2 wherever    *)
(* it was.                                                                 *)
(***************************************************************************)
C10_SortStable ==
    [][(last'.op = "Sort" /\ Sortkeys) =>
          \A i, j \in Keys(page) \ Reserved :
              ( /\ PositionOf(page, i) = PositionOf(page, j)
                /\ Before(page, i, j) )
              => Before(page', i, j)]_vars

(***************************************************************************)
(* C11 as claimed.  Keys 0 and 99 take no part in the ordering: whatever   *)
(* positions they hold, Sort with the flag on leaves key 0 first and key   *)
(* 99 last on the page and leaves their position and color untouched.      *)
(***************************************************************************)
C11_ReservedOutOfSort ==
    [][(last'.op = "Sort" /\ Sortkeys) =>
          /\ Indices(page')[1] = 0
          /\ Indices(page')[Len(Indices(page'))] = LastIdx
          /\ \A idx \in Reserved :
                /\ PositionOf(page', idx) = PositionOf(page, idx)
                /\ ColorOf(page', idx) = ColorOf(page, idx)]_vars

(***************************************************************************)
(* C11 as amended.  Keys 0 and 99 are ordered with the others: Sort with   *)
(* the flag on leaves their position and color untouched, but puts every   *)
(* key of a lower position before key 0 and every key of a higher position *)
(* after key 99; key 0 is first and key 99 last when key 0 holds the       *)
(* lowest position of all and key 99 the highest.                          *)
(***************************************************************************)
C11_ReservedSorted ==
    [][(last'.op = "Sort" /\ Sortkeys) =>
          /\ \A idx \in Reserved :
                /\ PositionOf(page', idx) = PositionOf(page, idx)
                /\ ColorOf(page', idx) = ColorOf(page, idx)
          /\ \A i \in Keys(page) :
                /\ PositionOf(page, i) < PositionOf(page, 0)
                      => Before(page', i, 0)
                /\ PositionOf(page, i) > PositionOf(page, LastIdx)
                      => Before(page', LastIdx, i)
          /\ (\A i \in Keys(page) \ {0} :
                    PositionOf(page, 0) < PositionOf(page, i))
                => Indices(page')[1] = 0
          /\ (\A i \in Keys(page) \ {LastIdx} :
                    PositionOf(page, i) < PositionOf(page, LastIdx))
                => Indices(page')[Len(Indices(page'))] = LastIdx]_vars

\* key 0 was moved up and key 99 down, and Sort has put 99 before 0
C11_Witness ==
    /\ last.op = "Sort" /\ Sortkeys
    /\ Before(page, LastIdx, 0)
    /\ Indices(page)[1] # 0
    /\ Cardinality(Keys(page)) > 2

(***************************************************************************)
(* C12.  Sort is idempotent: in a state that Sort has made, with the flag  *)
(* on or off, another Sort changes nothing: the page, and so the order of  *)
(* the keys and the position each index holds, is what it was.             *)
(***************************************************************************)
C12_SortIdempotent ==
    last.op = "Sort" =>
        /\ SwitchKeyPositions(page, Sortkeys) = page
        /\ Indices(SwitchKeyPositions(page, Sortkeys)) = Indices(page)
        /\ \A idx \in Keys(page) :
              PositionOf(SwitchKeyPositions(page, Sortkeys), idx)
                 = PositionOf(page, idx)

\* Sort has put key 2 before key 1, the two at one position with a third key
C12_Witness ==
    /\ last.op = "Sort" /\ Sortkeys
    /\ Before(page, 2, 1)
    /\ \E i \in Keys(page) \ {2} : PositionOf(page, i) = PositionOf(page, 2)

(***************************************************************************)
(* C13.  SetDeleteEnabled(enabled) makes the delete control of every key   *)
(* other than 0 and 99 armed exactly when `enabled`, and changes nothing   *)
(* else: the keys, their order on the page, every position and color, the  *)
(* delete controls of 0 and 99 and the Sortkeys flag stay; a second call   *)
(* with the same value changes nothing.                                    *)
(***************************************************************************)
C13_EnableDeleteFrame ==
    [][last'.op = "SetDeleteEnabled" =>
          /\ \A idx \in Keys(page') \ Reserved :
                Armed(page', idx) = Enabledelete'
          /\ \A idx \in Reserved : Armed(page', idx) = Armed(page, idx)
          /\ Len(page') = Len(page)
          /\ \A i \in 1..Len(page) :
                /\ page'[i].name = page[i].name
                /\ page'[i].vals = page[i].vals
                /\ page[i].name.prefix # delete_prefix
                      => page'[i].readOnly = page[i].readOnly
          /\ Sortkeys' = Sortkeys
          /\ OnEnableDelete(page', IF Enabledelete' THEN 1 ELSE 0) = page'
      ]_vars

\* deletion was enabled over two keys, one of them with an edited color
C13_Witness ==
    /\ last.op = "SetDeleteEnabled" /\ Enabledelete
    /\ Keys(page) = {0, 1, 2, LastIdx}
    /\ Armed(page, 1) /\ Armed(page, 2)
    /\ ColorOf(page, 1) # DefaultColor

(***************************************************************************)
(* C14.  AddKey creates exactly one key: a position, a color and a delete  *)
(* control of one index that no key held.  The new key holds the position  *)
(* AddKey read and the color (0.5, 0.5, 0.5, 1.0), and is armed exactly    *)
(* when deletion is enabled and its index is neither 0 nor 99; every key   *)
(* that was there keeps its index, position, color and armed state.        *)
(***************************************************************************)
C14_AddKeyFrame ==
    [][last'.op = "AddKey" =>
          /\ last'.idx \notin Keys(page)
          /\ Keys(page') = Keys(page) \cup {last'.idx}
          /\ Len(page') = Len(page) + 3
          /\ get_num_params(page') = get_num_params(page) + 1
          /\ HasPosition(page', last'.idx)
          /\ HasColor(page', last'.idx)
          /\ HasDelete(page', last'.idx)
          /\ PositionOf(page', last'.idx) = last'.val
          /\ ColorOf(page', last'.idx) = <<5, 5, 5, 10>>
          /\ Armed(page', last'.idx)
                = (Enabledelete /\ last'.idx \notin Reserved)
          /\ \A idx \in Keys(page) :
                /\ PositionOf(page', idx) = PositionOf(page, idx)
                /\ ColorOf(page', idx) = ColorOf(page, idx)
                /\ Armed(page', idx) = Armed(page, idx)
      ]_vars

\* with deletion and sorting enabled, AddKey(0.2) made key 2, armed, and put
\* it before key 1, whose color a user had picked
C14_Witness ==
    /\ last.op = "AddKey" /\ last.idx = 2 /\ last.val = 2
    /\ Enabledelete /\ Sortkeys
    /\ Armed(page, 2)
    /\ Before(page, 2, 1)
    /\ ColorOf(page, 1) # DefaultColor

(***************************************************************************)
(* The rows CollectColorKeys returns after its header.                     *)
(***************************************************************************)
KeyRows(pg) == Tail(CollectColorKeys(pg))

\* the indices of the keys, ascending
RECURSIVE Ascending(_)
Ascending(S) ==
    IF S = {} THEN <<>>
    ELSE LET lo == CHOOSE x \in S : \A y \in S : x <= y
         IN  <<lo>> \o Ascending(S \ {lo})

\* the position and the r, g, b, a of the key of an index
RowOf(pg, idx) == <<PositionOf(pg, idx)>> \o ColorOf(pg, idx)

RowsAscending(rows) ==
    \A k \in 1..(Len(rows) - 1) : rows[k][1] <= rows[k + 1][1]

\* the keys were put in order by the operation before
JustSorted == last.op \in {"Sort", "AddKey"} /\ Sortkeys

(***************************************************************************)
(* C15 as claimed.  CollectOrderedKeys writes nothing and returns one row  *)
(* for each key, 0 and 99 included, in ascending order of index, each row  *)
(* the position and the r, g, b, a of one key; when the keys have just     *)
(* been sorted the positions of the rows ascend as well.                   *)
(***************************************************************************)
C15_RowsByIndex ==
    [][last'.op = "Collect" =>
          /\ page' = page
          /\ KeyRows(page) = [k \in 1..Cardinality(Keys(page)) |->
                                 RowOf(page, Ascending(Keys(page))[k])]
          /\ JustSorted => RowsAscending(KeyRows(page))]_vars

(***************************************************************************)
(* C15 as amended.  CollectOrderedKeys writes nothing and returns, after a *)
(* header row, one row for each key, 0 and 99 included, in the order the   *)
(* keys have on the page, each row the position and the r, g, b, a of one  *)
(* key; when the keys have just been sorted the positions of the rows      *)
(* ascend.                                                                 *)
(***************************************************************************)
C15_RowsByPage ==
    [][last'.op = "Collect" =>
          /\ page' = page
          /\ Sortkeys' = Sortkeys /\ Enabledelete' = Enabledelete
          /\ Head(CollectColorKeys(page)) = <<"pos", "r", "g", "b", "a">>
          /\ KeyRows(page) = [k \in 1..Cardinality(Keys(page)) |->
                                 RowOf(page, Indices(page)[k])]
          /\ JustSorted => RowsAscending(KeyRows(page))]_vars

\* the rows were read with key 2 before key 1 on the page and a picked color
C15_Witness ==
    /\ last.op = "Collect" /\ Sortkeys
    /\ Indices(page) = <<0, 2, 1, LastIdx>>
    /\ ColorOf(page, 1) # DefaultColor
    /\ RowsAscending(KeyRows(page))

(***************************************************************************)
(* C16.  DeleteKey of an index that no key holds (a second DeleteKey of a  *)
(* deleted index, say) fails and changes nothing: the call ends in an      *)
(* exception, and the page and both flags are what they were.  DeleteKey   *)
(* of an index that a key holds does not fail.                             *)
(***************************************************************************)
C16_DeleteMissingFails ==
    [][last'.op = "DeleteKey" =>
          /\ last'.idx \notin Keys(page) =>
                /\ last'.err
                /\ page' = page
                /\ Sortkeys' = Sortkeys
                /\ Enabledelete' = Enabledelete
          /\ last'.idx \in Keys(page) => ~last'.err]_vars

\* key 1 was deleted while key 2 stayed, and DeleteKey(1) was called again
C16_Witness ==
    /\ last.op = "DeleteKey" /\ last.idx = 1 /\ last.err
    /\ Keys(page) = {0, 2, LastIdx}

(***************************************************************************)
(* C17.  In every reachable state each key other than 0 and 99 is armed    *)
(* exactly when the Enabledelete flag is on, keys added since the flag was *)
(* last set included.                                                      *)
(***************************************************************************)
C17_ArmedFollowsFlag ==
    \A idx \in Keys(page) \ Reserved : Armed(page, idx) = Enabledelete

\* key 2 was added with the flag on and no sorting, after key 1
C17_Witness ==
    /\ last.op = "AddKey" /\ last.idx = 2
    /\ Enabledelete /\ ~Sortkeys
    /\ Keys(page) = {0, 1, 2, LastIdx}
    /\ Armed(page, 1) /\ Armed(page, 2)

(***************************************************************************)
(* C18.  Sort creates and destroys no key and changes no position, color   *)
(* or armed state: the page after Sort holds the parameters it held, with  *)
(* their values.  After Sort each key's position, color and delete control *)
(* are next to each other on the page, in that order.  With the Sortkeys   *)
(* flag off Sort changes nothing, the order of the page included.          *)
(***************************************************************************)
C18_SortFrame ==
    [][last'.op = "Sort" =>
          /\ Len(page') = Len(page)
          /\ Range(page') = Range(page)
          /\ Keys(page') = Keys(page)
          /\ \A idx \in Keys(page) :
                /\ PositionOf(page', idx) = PositionOf(page, idx)
                /\ ColorOf(page', idx) = ColorOf(page, idx)
                /\ Armed(page', idx) = Armed(page, idx)
          /\ TriplesTogether(page')
          /\ ~Sortkeys => page' = page
          /\ Sortkeys' = Sortkeys
          /\ Enabledelete' = Enabledelete]_vars

\* Sort has put key 2 before key 1, both armed, key 1 of a picked color
C18_Witness ==
    /\ last.op = "Sort" /\ Sortkeys
    /\ Before(page, 2, 1)
    /\ Armed(page, 1) /\ Armed(page, 2)
    /\ ColorOf(page, 1) # DefaultColor
    /\ PositionOf(page, 2) < PositionOf(page, 1)

(***************************************************************************)
(* The index policy, stated over the set of indices in use.                *)
(***************************************************************************)
SetMin(S) == CHOOSE x \in S : \A y \in S : x <= y

\* the first value of lo..hi followed by 99 that no key holds, or -1 for none
FirstMissing(lo, hi, used) ==
    IF (lo..hi) \ used # {} THEN SetMin((lo..hi) \ used)
    ELSE IF LastIdx \notin used THEN LastIdx
    ELSE -1

\* as claimed: n is the number of keys other than 0 and 99, plus one; the
\* domain is 0..n-1 with its last element replaced by 99
StatedPolicy(pg) ==
    LET n == Cardinality(Keys(pg) \ Reserved) + 1
        first == FirstMissing(0, n - 2, Keys(pg))
    IN  IF first # -1 THEN first ELSE (n - 2) + 1

\* as the code has it: the domain is 0..m with its last element replaced by
\* 99, m the number of all keys, 0 and 99 included
CodePolicy(pg) ==
    LET m == Cardinality(Keys(pg))
        first == FirstMissing(0, m - 1, Keys(pg))
    IN  IF first # -1 THEN first ELSE (m - 1) + 1

\* the page after n AddKey(0.5) in a row from the shipped page, no flag set:
\* the keys 0 and 99, then 1 .. n
FilledPage(n) ==
    InitPage \o
    [i \in 1..(3 * n) |->
        LET idx == (i + 2) \div 3
        IN  IF i % 3 = 1
            THEN ParGroup(Tuplet(position_prefix, idx), <<5>>, FALSE)
            ELSE IF i % 3 = 2
            THEN ParGroup(Tuplet(color_prefix, idx), DefaultColor, FALSE)
            ELSE ParGroup(Tuplet(delete_prefix, idx), <<0>>, TRUE)]

(***************************************************************************)
(* C19 as claimed.  The index AddKey assigns is the one the stated policy  *)
(* yields, wherever that policy yields one (with no key besides 0 and 99   *)
(* its domain is 99 alone and its max is taken of nothing).                *)
(***************************************************************************)
C19_StatedPolicy ==
    [][(last'.op = "AddKey" /\ Keys(page) \ Reserved # {}) =>
          last'.idx = StatedPolicy(page)]_vars

(***************************************************************************)
(* C19 as amended.  With m the number of all keys, 0 and 99 included, the  *)
(* domain is 0..m with its last element replaced by 99; the index AddKey   *)
(* assigns is the first value of the domain that no key holds, else the    *)
(* max of the domain without its last element, plus one.  From the keys    *)
(* {0, 1, 99} that is 2, and from 0 .. 99 all in use it is 100.            *)
(***************************************************************************)
C19_CodePolicy ==
    [][last'.op = "AddKey" =>
          /\ last'.idx = CodePolicy(page)
          /\ Keys(page) = {0, 1, LastIdx} => last'.idx = 2
          /\ FilledPage(2) = OnAddKey(OnAddKey(InitPage, 5, FALSE, FALSE),
                                      5, FALSE, FALSE)
          /\ next_idx(FilledPage(LastIdx - 1)) = LastIdx + 1
          /\ CodePolicy(FilledPage(LastIdx - 1)) = LastIdx + 1]_vars

\* keys 1, 2, 3 were added, 1 was deleted, and AddKey has given 1 out again
C19_Witness ==
    /\ last.op = "AddKey" /\ last.idx = 1
    /\ Indices(page) = <<0, LastIdx, 2, 3, 1>>

(***************************************************************************)
(* C20.  In every reachable state with fewer than 100 keys, `missing` is   *)
(* not empty and holds neither 0 nor 99, so AddKey takes its first element *)
(* and not max + 1; that index is not 0 and not 99, it is the smallest     *)
(* positive integer that no key holds, and it is at most the number of     *)
(* keys less one.                                                          *)
(***************************************************************************)
C20_MissingBelowCapacity ==
    get_num_params(page) < LastIdx + 1 =>
        /\ missing(page) # <<>>
        /\ 0 \notin Range(missing(page))
        /\ LastIdx \notin Range(missing(page))
        /\ next_idx(page) = missing(page)[1]
        /\ next_idx(page) \notin Reserved
        /\ next_idx(page) = LowestUnused(page)
        /\ next_idx(page) <= get_num_params(page) - 1

\* 99 keys, key 100 among them: keys 1 and 2 were deleted from the full page
\* and are missing, and DeleteKey(0) has been called
C20_Witness ==
    /\ last.op = "DeleteKey" /\ last.idx = 0
    /\ get_num_params(page) = LastIdx
    /\ LastIdx + 1 \in Keys(page)
    /\ missing(page) = <<1, 2>>

====
